---- MODULE Spec2Model ----
(***************************************************************************)
(* A model of streamlit_app.py: the pricing engine (karat_to_purity,       *)
(* compute_price, PriceBreakdown) and the rate provider (fetch_gold_rate   *)
(* behind st.cache_data(ttl=600), called from the two tabs of main).       *)
(*                                                                         *)
(* Amounts are Python floats in the source.  They are modelled as exact    *)
(* rationals <<n, d>> in lowest terms with d >= 1, so every equality below *)
(* is an equality of real values; IEEE rounding is not modelled.           *)
(***************************************************************************)
EXTENDS Integers, Sequences, FiniteSets, TLC

(***************************************************************************)
(* Exact rational arithmetic.                                              *)
(***************************************************************************)
Abs(n) == IF n < 0 THEN -n ELSE n

RECURSIVE GCD(_, _)
GCD(a, b) == IF b = 0 THEN a ELSE GCD(b, a % b)

LCM(a, b) == (a \div GCD(a, b)) * b

Norm(n, d) ==
    IF n = 0 THEN <<0, 1>>
    ELSE LET g == GCD(Abs(n), d) IN <<n \div g, d \div g>>

R(n) == <<n, 1>>
Zero == R(0)
One == R(1)

RNeg(a) == <<-a[1], a[2]>>

RAdd(a, b) ==
    LET l == LCM(a[2], b[2])
    IN  Norm(a[1] * (l \div a[2]) + b[1] * (l \div b[2]), l)

RSub(a, b) == RAdd(a, RNeg(b))

RMul(a, b) ==
    IF a[1] = 0 \/ b[1] = 0 THEN Zero
    ELSE LET g1 == GCD(Abs(a[1]), b[2])
             g2 == GCD(Abs(b[1]), a[2])
         IN  <<(a[1] \div g1) * (b[1] \div g2), (a[2] \div g2) * (b[2] \div g1)>>

RInv(a) == IF a[1] > 0 THEN <<a[2], a[1]>> ELSE <<-a[2], -a[1]>>

RDiv(a, b) == RMul(a, RInv(b))

RLt(a, b) == a[1] * b[2] < b[1] * a[2]

RLe(a, b) == a[1] * b[2] <= b[1] * a[2]

\* Python's max(a, b) and min(a, b): the first argument unless the second
\* is strictly larger (smaller).
RMax(a, b) == IF RLt(a, b) THEN b ELSE a

RMin(a, b) == IF RLt(b, a) THEN b ELSE a

RECURSIVE RSum(_)
RSum(s) == IF s = <<>> THEN Zero ELSE RAdd(Head(s), RSum(Tail(s)))

Hundred == R(100)

(***************************************************************************)
(* karat_to_purity                                                         *)
(***************************************************************************)
\* karat / 24 without the clamp to [0, 1].
karat_to_purity_unclamped(karat) == RDiv(R(karat), R(24))

karat_to_purity(karat) == RMax(Zero, RMin(One, RDiv(R(karat), R(24))))

(***************************************************************************)
(* compute_price, one definition per assignment of the function body       *)
(***************************************************************************)
gold_value(weight_g, base_rate_per_g, purity) ==
    RMul(RMul(weight_g, base_rate_per_g), purity)

\* The percentage alone, without the minimum.
making_pct_only(making_min, gv, making_pct) ==
    RDiv(RMul(gv, making_pct), Hundred)

making(making_min, gv, making_pct) ==
    RMax(making_min, RDiv(RMul(gv, making_pct), Hundred))

gross_before(gv, mk, stone_cost, hallmarking, shipping, certification_fee, conversion_fee) ==
    RSum(<<gv, mk, stone_cost, hallmarking, shipping, certification_fee, conversion_fee>>)

insurance(gb, insurance_pct) == RMul(gb, RDiv(insurance_pct, Hundred))

discount(gross, discount_pct) == RMul(gross, RDiv(discount_pct, Hundred))

gst(net, gst_pct) == RMul(net, RDiv(gst_pct, Hundred))

\* net + gst, the lock band left out.
total_before_advance_nolock(net, tax, final_lock_band) == RAdd(net, tax)

total_before_advance(net, tax, final_lock_band) ==
    RAdd(RAdd(net, tax), final_lock_band)

\* The difference without the floor at zero.
final_payable_nofloor(tba, advance_paid) == RSub(tba, advance_paid)

final_payable(tba, advance_paid) == RMax(Zero, RSub(tba, advance_paid))

\* The keys of the parts dict, in insertion order.
PartKeys ==
    <<"Gold value", "Making charges", "Stone cost", "Hallmarking", "Shipping",
      "Certification", "Conversion", "Insurance", "Discount", "GST",
      "Advance paid", "Final lock band", "Final payable">>

KeySet == {PartKeys[i] : i \in DOMAIN PartKeys}

compute_price(a) ==
    LET purity == karat_to_purity(a.karat)
        gv == gold_value(a.weight_g, a.base_rate_per_g, purity)
        mk == making(a.making_min, gv, a.making_pct)
        gb == gross_before(gv, mk, a.stone_cost, a.hallmarking, a.shipping,
                           a.certification_fee, a.conversion_fee)
        ins == insurance(gb, a.insurance_pct)
        gross == RAdd(gb, ins)
        disc == discount(gross, a.discount_pct)
        net == RSub(gross, disc)
        tax == gst(net, a.gst_pct)
        tba == total_before_advance(net, tax, a.final_lock_band)
        fin == final_payable(tba, a.advance_paid)
    IN  ("Gold value" :> gv) @@ ("Making charges" :> mk)
        @@ ("Stone cost" :> a.stone_cost) @@ ("Hallmarking" :> a.hallmarking)
        @@ ("Shipping" :> a.shipping) @@ ("Certification" :> a.certification_fee)
        @@ ("Conversion" :> a.conversion_fee) @@ ("Insurance" :> ins)
        @@ ("Discount" :> RNeg(disc)) @@ ("GST" :> tax)
        @@ ("Advance paid" :> RNeg(a.advance_paid))
        @@ ("Final lock band" :> a.final_lock_band) @@ ("Final payable" :> fin)

(***************************************************************************)
(* PriceBreakdown: the parts dict and its two derived properties           *)
(***************************************************************************)
RECURSIVE SumOver(_, _, _)
SumOver(parts, keys, skip) ==
    IF keys = <<>> THEN Zero
    ELSE IF Head(keys) \in skip THEN SumOver(parts, Tail(keys), skip)
    ELSE RAdd(parts[Head(keys)], SumOver(parts, Tail(keys), skip))

\* A subtotal that also leaves 'Final payable' out.
subtotal_skip_final(parts) == SumOver(parts, PartKeys, {"GST", "Final payable"})

subtotal(parts) == SumOver(parts, PartKeys, {"GST"})

total(parts) == SumOver(parts, PartKeys, {})

(***************************************************************************)
(* Input domains of the pricing engine                                     *)
(***************************************************************************)
Weights == {R(10), <<13, 2>>}
Karats == {-5, 0, 14, 18, 20, 22, 24, 30}
Rates == {R(6000)}
MakingPcts == {R(0), R(12)}
MakingMins == {R(500), R(10000)}
Fees ==
    { [stone_cost |-> R(0), hallmarking |-> R(0), shipping |-> R(0),
       certification_fee |-> R(0), conversion_fee |-> R(0)],
      [stone_cost |-> R(0), hallmarking |-> R(100), shipping |-> R(200),
       certification_fee |-> R(300), conversion_fee |-> R(0)],
      [stone_cost |-> R(1000), hallmarking |-> R(100), shipping |-> R(200),
       certification_fee |-> R(300), conversion_fee |-> R(400)] }
InsurancePcts == {R(0), R(1)}
DiscountPcts == {R(0), R(5), R(150)}
GstPcts == {R(0), R(3)}
Advances == {R(0), R(70000)}
LockBands == {R(0), R(10)}

Args ==
    { [weight_g |-> w, karat |-> k, base_rate_per_g |-> r, making_pct |-> mp,
       making_min |-> mm, stone_cost |-> f.stone_cost, hallmarking |-> f.hallmarking,
       shipping |-> f.shipping, insurance_pct |-> ip,
       certification_fee |-> f.certification_fee, conversion_fee |-> f.conversion_fee,
       discount_pct |-> dp, advance_paid |-> ad, gst_pct |-> gp, final_lock_band |-> lb] :
      w \in Weights, k \in Karats, r \in Rates, mp \in MakingPcts, mm \in MakingMins,
      f \in Fees, ip \in InsurancePcts, dp \in DiscountPcts, gp \in GstPcts,
      ad \in Advances, lb \in LockBands }

NoParts == [k \in {} |-> Zero]

MaxWrites == 1
WriteValues == {Zero}

(***************************************************************************)
(* fetch_gold_rate                                                         *)
(***************************************************************************)
DEFAULT_CURRENCY == "INR"

\* 31.1034768 grams per troy ounce, as the exact rational 19439673/625000.
GramsPerOunce == <<19439673, 625000>>

\* None, the value of per_gram when nothing was computed.
Null == <<>>

\* A JSON field read with .get(): absent (None), a number, or a string.
Absent == [tag |-> "absent", v |-> Zero]
Num(v) == [tag |-> "num", v |-> v]
Str == [tag |-> "str", v |-> Zero]

\* Python truthiness of the field: None and 0 are falsy, a non-empty string
\* and every other number are truthy.
Truthy(f) == f.tag = "str" \/ (f.tag = "num" /\ f.v[1] # 0)

\* What requests.get(...) and the reads of its response can do:
\*   "raise"    requests.get raises (connection error, timeout after 10 s)
\*   "status"   a response whose r.ok is false
\*   "badjson"  r.ok, and r.json() raises
\*   "json"     r.ok, and the price / rates.XAU field is `field`
Raise == [kind |-> "raise", field |-> Absent]
NotOk == [kind |-> "status", field |-> Absent]
BadJson == [kind |-> "badjson", field |-> Absent]
Json(f) == [kind |-> "json", field |-> f]

ErrTimeout == "HTTPSConnectionPool: Read timed out. (read timeout=10)"
ErrJson == "Expecting value: line 1 column 1 (char 0)"
ErrType == "unsupported operand type(s) for /"

Meta(source, timestamp, provider, error) ==
    [keys |-> {"source", "timestamp"}
                \cup (IF provider # "" THEN {"provider"} ELSE {})
                \cup (IF error # "" THEN {"error"} ELSE {}),
     source |-> source, timestamp |-> timestamp, provider |-> provider, error |-> error]

Result(per_gram, meta) == [per_gram |-> per_gram, meta |-> meta]

NoResult ==
    Result(Null, [keys |-> {}, source |-> "", timestamp |-> 0, provider |-> "", error |-> ""])

\* The provider name each branch records.
Provider(config) == IF config.source = "paid" THEN "goldapi.io" ELSE "metals-api"

\* Lines 44-47 and 55-59: per_gram from a truthy numeric field.
PerGramOf(config, v) ==
    IF config.source = "paid" THEN RDiv(v, GramsPerOunce)
    ELSE RDiv(RInv(v), GramsPerOunce)

\* A variant that records an error whenever no rate was obtained.
fetch_gold_rate_error_on_no_rate(config, requests, resp, utcnow) ==
    IF requests /\ resp.kind = "json" /\ resp.field.tag = "num" /\ resp.field.v[1] # 0
    THEN Result(PerGramOf(config, resp.field.v),
                Meta(config.source, utcnow, Provider(config), ""))
    ELSE Result(Null, Meta(config.source, utcnow, "", "no rate available"))

\* The body of fetch_gold_rate: `requests` is the truth value of the module's
\* requests name, resp what the upstream does if it is asked, utcnow the clock.
fetch_gold_rate(config, requests, resp, utcnow) ==
    IF ~requests THEN Result(Null, Meta(config.source, utcnow, "", ""))
    ELSE CASE resp.kind = "raise" -> Result(Null, Meta(config.source, utcnow, "", ErrTimeout))
           [] resp.kind = "status" -> Result(Null, Meta(config.source, utcnow, "", ""))
           [] resp.kind = "badjson" -> Result(Null, Meta(config.source, utcnow, "", ErrJson))
           [] resp.kind = "json" ->
                IF ~Truthy(resp.field)
                THEN Result(Null, Meta(config.source, utcnow, "", ""))
                ELSE IF resp.field.tag = "str"
                THEN Result(Null, Meta(config.source, utcnow, "", ErrType))
                ELSE Result(PerGramOf(config, resp.field.v),
                            Meta(config.source, utcnow, Provider(config), ""))

\* rate['per_gram'] or 6000
FallbackRate == 6000

OrFallback(per_gram) ==
    IF per_gram = Null \/ per_gram[1] = 0 THEN R(FallbackRate) ELSE per_gram

(***************************************************************************)
(* st.cache_data(ttl=600) around fetch_gold_rate, and the calls of main    *)
(***************************************************************************)
TTL == 600

Sources == {"free", "paid"}
ApiKeys == {""}
Currencies == {DEFAULT_CURRENCY}

Queries == [source : Sources, api_key : ApiKeys, base_currency : Currencies]

\* The numbers the upstream may put in the field: a price per ounce for the
\* paid source (186620.8608 per ounce is 6000 per gram), an exchange rate for
\* the free one (its inverse is the price per ounce).
Numbers(source) ==
    {Zero, R(-1)}
      \cup (IF source = "paid" THEN {<<116638038, 625>>} ELSE {<<625, 116638038>>})

FieldValues(source) == {Absent, Str} \cup {Num(v) : v \in Numbers(source)}

Responses(source) == {Raise, NotOk, BadJson} \cup {Json(f) : f \in FieldValues(source)}

TickSeconds == 300
MaxTime == 900

NoEntry == [value |-> NoResult, stored |-> -1]

\* An entry is served while it is younger than the ttl.
Fresh(entry, t) == entry # NoEntry /\ t - entry.stored < TTL

\* A cache that keeps only the lookups that produced a rate.
CacheStoreSuccessOnly(c, q, value, t) ==
    IF value.per_gram = Null THEN c ELSE [c EXCEPT ![q] = [value |-> value, stored |-> t]]

\* The cache keeps whatever the function returned under the value of its argument.
CacheStore(c, q, value, t) == [c EXCEPT ![q] = [value |-> value, stored |-> t]]

VARIABLES args, pb, writes,
          now, requests, cache, cfg, pc, rate, rate_val, contacted, lastExec, hist

pvars == <<args, pb, writes>>

rvars == <<now, requests, cache, cfg, pc, rate, rate_val, contacted, lastExec, hist>>

NoExec == [ran |-> FALSE, resp |-> NotOk, result |-> NoResult]

vars == <<pvars, rvars>>

\* The values main passes when the user leaves every widget at its default.
MainDefaults ==
    [weight_g |-> R(10), karat |-> 22, base_rate_per_g |-> R(FallbackRate),
     making_pct |-> R(12), making_min |-> R(500), stone_cost |-> Zero,
     hallmarking |-> R(45), shipping |-> R(150), insurance_pct |-> One,
     certification_fee |-> R(300), conversion_fee |-> Zero, discount_pct |-> Zero,
     advance_paid |-> Zero, gst_pct |-> R(3), final_lock_band |-> Zero]

\* The pricing engine before any quotation was computed.
PIdle ==
    /\ args = MainDefaults
    /\ pb = NoParts
    /\ writes = 0

RInit ==
    /\ PIdle
    /\ now = 0
    /\ requests \in BOOLEAN
    /\ cache = [q \in Queries |-> NoEntry]
    /\ cfg \in Queries
    /\ pc = "sidebar"
    /\ rate = NoResult
    /\ rate_val = R(FallbackRate)
    /\ contacted = FALSE
    /\ lastExec = NoExec
    /\ hist = [q \in Queries |-> NoEntry]

\* sidebar_config: the user's choice of source, key and currency for this run.
SidebarConfig ==
    /\ pc = "sidebar"
    /\ cfg' \in Queries
    /\ pc' = "tab_home"
    /\ UNCHANGED <<now, requests, cache, rate, rate_val, contacted, lastExec, hist, pvars>>

\* One call of the cached fetch_gold_rate(cfg): a fresh entry is returned as
\* stored, otherwise the body runs and its result is stored.  lastExec and
\* hist record the last run of the body (what the upstream did, what came back).
CallFetch ==
    IF Fresh(cache[cfg], now)
    THEN /\ rate' = cache[cfg].value
         /\ contacted' = FALSE
         /\ UNCHANGED <<cache, lastExec, hist>>
    ELSE \E resp \in Responses(cfg.source) :
           LET res == fetch_gold_rate(cfg, requests, resp, now)
           IN  /\ rate' = res
               /\ contacted' = requests
               /\ cache' = CacheStore(cache, cfg, res, now)
               /\ lastExec' = [ran |-> TRUE, resp |-> IF requests THEN resp ELSE NotOk,
                               result |-> res]
               /\ hist' = [hist EXCEPT ![cfg] = [value |-> res, stored |-> now]]

\* with tab_home: fetch and show the rate.
TabHome ==
    /\ pc = "tab_home"
    /\ CallFetch
    /\ pc' = "tab_quote"
    /\ UNCHANGED <<now, requests, cfg, rate_val, pvars>>

\* with tab_quote: fetch again and take per_gram or 6000 as the rate to price with.
TabQuote ==
    /\ pc = "tab_quote"
    /\ CallFetch
    /\ rate_val' = OrFallback(rate'.per_gram)
    /\ pc' = "sidebar"
    /\ UNCHANGED <<now, requests, cfg, pvars>>

\* Wall-clock time passes.
Tick ==
    /\ now + TickSeconds <= MaxTime
    /\ now' = now + TickSeconds
    /\ UNCHANGED <<requests, cache, cfg, pc, rate, rate_val, contacted, lastExec, hist, pvars>>

RNext == SidebarConfig \/ TabHome \/ TabQuote \/ Tick

SpecRate == RInit /\ [][RNext]_vars

(***************************************************************************)
(* The pricing engine applied to every input of the domain                 *)
(***************************************************************************)
\* The rate provider before any call, with the requests import in place.
RIdle ==
    /\ now = 0
    /\ requests = TRUE
    /\ cache = [q \in Queries |-> NoEntry]
    /\ cfg = [source |-> "free", api_key |-> "", base_currency |-> DEFAULT_CURRENCY]
    /\ pc = "sidebar"
    /\ rate = NoResult
    /\ rate_val = R(FallbackRate)
    /\ contacted = FALSE
    /\ lastExec = NoExec
    /\ hist = [q \in Queries |-> NoEntry]

PInit ==
    /\ RIdle
    /\ args \in Args
    /\ pb = NoParts
    /\ writes = 0

\* pb = compute_price(...): a new PriceBreakdown holding the parts dict.
ComputePrice ==
    /\ pb = NoParts
    /\ pb' = compute_price(args)
    /\ UNCHANGED <<args, writes, rvars>>

\* PriceBreakdown.__init__ keeps the dict it is given in the public attribute
\* parts; a holder of the object can assign through it: pb.parts[k] = v.
HolderWrite ==
    /\ pb # NoParts
    /\ writes < MaxWrites
    /\ \E k \in KeySet, v \in WriteValues :
          /\ pb[k] # v
          /\ pb' = [pb EXCEPT ![k] = v]
    /\ writes' = writes + 1
    /\ UNCHANGED <<args, rvars>>

PNext == ComputePrice

SpecPrice == PInit /\ [][PNext]_vars

HNext == ComputePrice \/ HolderWrite

SpecHolder == PInit /\ [][HNext]_vars

(***************************************************************************)
(* Properties of the pricing engine                                        *)
(***************************************************************************)
Computed == pb # NoParts

\* What a reader of the breakdown can recompute from its entries.
GrossBeforeOf(p) == SumOver(p, SubSeq(PartKeys, 1, 7), {})
GrossOf(p) == SumOver(p, SubSeq(PartKeys, 1, 8), {})
NetOf(p) == SumOver(p, SubSeq(PartKeys, 1, 9), {})
TotalBeforeAdvanceOf(p) == RAdd(RAdd(NetOf(p), p["GST"]), p["Final lock band"])

NonNegativeArgs ==
    /\ args.karat >= 0
    /\ \A f \in DOMAIN args \ {"karat"} : RLe(Zero, args[f])

ScenarioA ==
    [weight_g |-> R(10), karat |-> 22, base_rate_per_g |-> R(6000),
     making_pct |-> R(12), making_min |-> R(500), stone_cost |-> Zero,
     hallmarking |-> Zero, shipping |-> Zero, insurance_pct |-> Zero,
     certification_fee |-> Zero, conversion_fee |-> Zero, discount_pct |-> Zero,
     advance_paid |-> Zero, gst_pct |-> Zero, final_lock_band |-> Zero]

ScenarioB == [ScenarioA EXCEPT !.gst_pct = R(3)]

ScenarioC == [ScenarioB EXCEPT !.advance_paid = R(70000)]

\* C3: for non-negative inputs the 'Final payable' entry is >= 0, and it is
\* exactly 0 whenever advance_paid exceeds net + GST + final_lock_band
\* (advance 70000 against a total-before-advance of 63448 gives 0).
C3_FinalPayableFloored ==
    (Computed /\ NonNegativeArgs) =>
        /\ RLe(Zero, pb["Final payable"])
        /\ RLt(TotalBeforeAdvanceOf(pb), args.advance_paid) => pb["Final payable"] = Zero
        /\ args = ScenarioC =>
              TotalBeforeAdvanceOf(pb) = R(63448) /\ pb["Final payable"] = Zero

C3_Witness ==
    /\ Computed
    /\ args = ScenarioC
    /\ RLt(TotalBeforeAdvanceOf(pb), args.advance_paid)
    /\ pb["Final payable"] = Zero

\* C4: every line item of the breakdown equals the value of the reference
\* pipeline on the inputs, and Scenarios A and B yield the stated amounts.
C4_ReferencePipeline ==
    Computed =>
        LET k == IF args.karat <= 0 THEN 0
                 ELSE IF args.karat >= 24 THEN 24 ELSE args.karat
            pct == RDiv(RMul(pb["Gold value"], args.making_pct), Hundred)
            tba == TotalBeforeAdvanceOf(pb)
        IN  /\ RMul(pb["Gold value"], R(24))
                 = RMul(RMul(args.weight_g, args.base_rate_per_g), R(k))
            /\ pb["Making charges"] \in {args.making_min, pct}
            /\ RLe(args.making_min, pb["Making charges"])
            /\ RLe(pct, pb["Making charges"])
            /\ pb["Stone cost"] = args.stone_cost
            /\ pb["Hallmarking"] = args.hallmarking
            /\ pb["Shipping"] = args.shipping
            /\ pb["Certification"] = args.certification_fee
            /\ pb["Conversion"] = args.conversion_fee
            /\ RMul(pb["Insurance"], Hundred) = RMul(GrossBeforeOf(pb), args.insurance_pct)
            /\ RMul(pb["Discount"], Hundred) = RNeg(RMul(GrossOf(pb), args.discount_pct))
            /\ RMul(pb["GST"], Hundred) = RMul(NetOf(pb), args.gst_pct)
            /\ pb["Advance paid"] = RNeg(args.advance_paid)
            /\ pb["Final lock band"] = args.final_lock_band
            /\ pb["Final payable"]
                 = IF RLe(args.advance_paid, tba) THEN RSub(tba, args.advance_paid) ELSE Zero
            /\ args = ScenarioA =>
                  /\ pb["Gold value"] = R(55000)
                  /\ pb["Making charges"] = R(6600)
                  /\ pb["Final payable"] = R(61600)
            /\ args = ScenarioB =>
                  /\ pb["GST"] = R(1848)
                  /\ pb["Final payable"] = R(63448)

C4_Witness ==
    /\ Computed
    /\ args = ScenarioB
    /\ pb["Making charges"] = R(6600)
    /\ pb["GST"] = R(1848)

\* C5: total is the sum of all thirteen line items, and subtotal is that sum
\* with exactly the 'GST' entry left out, 'Final payable' included.
C5_TotalAndSubtotal ==
    Computed =>
        /\ total(pb) = RSum([i \in DOMAIN PartKeys |-> pb[PartKeys[i]]])
        /\ subtotal(pb) = RSub(total(pb), pb["GST"])
        /\ subtotal(pb)
             = RAdd(RAdd(NetOf(pb), RAdd(pb["Advance paid"], pb["Final lock band"])),
                    pb["Final payable"])

C5_Witness ==
    /\ Computed
    /\ pb["GST"] # Zero
    /\ pb["Final payable"] # Zero
    /\ subtotal(pb) # total(pb)

\* C6: once a PriceBreakdown is constructed, none of its line items (and so
\* neither subtotal nor total) ever changes.
C6_ImmutableOnceConstructed == [][Computed => pb' = pb]_vars

\* C7: purity is exactly karat/24 for karat in {24,22,20,18,14}, 0 for
\* karat <= 0 and 1 for karat >= 24; karat 30 is priced as 24k and karat -5
\* gives Gold value 0.
C7_PurityClamp ==
    /\ args.karat \in {24, 22, 20, 18, 14} =>
          RMul(karat_to_purity(args.karat), R(24)) = R(args.karat)
    /\ args.karat <= 0 => karat_to_purity(args.karat) = Zero
    /\ args.karat >= 24 => karat_to_purity(args.karat) = One
    /\ (Computed /\ args.karat = 30) =>
          /\ pb["Gold value"] = RMul(args.weight_g, args.base_rate_per_g)
          /\ pb = compute_price([args EXCEPT !.karat = 24])
    /\ (Computed /\ args.karat = -5) => pb["Gold value"] = Zero

C7_Witness ==
    /\ Computed
    /\ args.karat = 30
    /\ pb["Gold value"] = RMul(R(10), R(6000))

\* C10: when advance_paid <= net + GST + final_lock_band, the entries other
\* than 'Final payable' sum to the 'Final payable' entry, so total is twice
\* the final payable amount.
C10_TotalIsTwiceFinal ==
    (Computed /\ RLe(args.advance_paid, TotalBeforeAdvanceOf(pb))) =>
        /\ SumOver(pb, PartKeys, {"Final payable"}) = pb["Final payable"]
        /\ total(pb) = RMul(R(2), pb["Final payable"])

C10_Witness ==
    /\ Computed
    /\ args = [ScenarioB EXCEPT !.final_lock_band = R(10)]
    /\ pb["Final payable"] = R(63458)
    /\ total(pb) = R(126916)

(***************************************************************************)
(* Properties of the rate provider                                         *)
(***************************************************************************)
\* What happened in the last run of the body of fetch_gold_rate.
ExceptionRaised ==
    /\ requests
    /\ \/ lastExec.resp.kind \in {"raise", "badjson"}
       \/ lastExec.resp.kind = "json" /\ lastExec.resp.field.tag = "str"

UpstreamSucceeded ==
    /\ requests
    /\ lastExec.resp.kind = "json"
    /\ lastExec.resp.field.tag = "num"
    /\ lastExec.resp.field.v # Zero

\* The failure modes: the requests dependency absent, a network or timeout
\* exception, a non-ok status, a missing or empty field.
FailureMode ==
    \/ ~requests
    \/ lastExec.resp.kind \in {"raise", "status"}
    \/ lastExec.resp.kind = "json" /\ lastExec.resp.field \in {Absent, Num(Zero)}

HasError(res) == "error" \in res.meta.keys /\ res.meta.error # ""

\* C1: in every failure mode fetch_gold_rate returns per_gram null and a
\* meta with a non-empty 'error' entry.
C1_EveryFailureReported ==
    (lastExec.ran /\ FailureMode) =>
        (lastExec.result.per_gram = Null /\ HasError(lastExec.result))

\* C2: per_gram is null iff no upstream call succeeded (ok status and a usable
\* numeric field), and meta has an 'error' entry only when an exception was
\* raised during the attempt.
C2_NullIffNoSuccess ==
    lastExec.ran =>
        /\ lastExec.result.per_gram = Null <=> ~UpstreamSucceeded
        /\ "error" \in lastExec.result.meta.keys => ExceptionRaised

C2_Witness ==
    /\ lastExec.ran
    /\ requests
    /\ lastExec.resp = NotOk
    /\ rate = lastExec.result
    /\ rate.per_gram = Null
    /\ "error" \notin rate.meta.keys

\* C8: the per_gram of every returned result is null or strictly positive.
C8_PerGramNullOrPositive == rate.per_gram = Null \/ rate.per_gram[1] > 0

\* C9: a call made while the result last computed for the same query is
\* younger than 600 seconds returns that stored result unchanged (null
\* per_gram, error and timestamp included) without contacting the upstream;
\* once the window has expired the upstream is contacted again.
FetchStep == pc \in {"tab_home", "tab_quote"} /\ pc' # pc

C9_FailuresCachedForTTL ==
    [][FetchStep =>
         IF hist[cfg] # NoEntry /\ now - hist[cfg].stored < TTL
         THEN rate' = hist[cfg].value /\ ~contacted' /\ hist' = hist
         ELSE contacted' = requests /\ rate'.meta.timestamp = now]_vars

C9_Witness ==
    /\ requests
    /\ ~contacted
    /\ rate.per_gram = Null
    /\ rate.meta.error = ErrTimeout
    /\ rate.meta.timestamp < now
    /\ rate = hist[cfg].value

====
